---- MODULE Spec2Model ----
(***************************************************************************)
(* Status, StatusGroup and StatusLogSink of                                *)
(* tensorflow/core/platform/status.cc as a state machine.                  *)
(*                                                                         *)
(* A std::string is a sequence of one-character strings, so that find,     *)
(* substr, StrCat and StrJoin do here what they do in the code.            *)
(*                                                                         *)
(* Specifications:                                                         *)
(*   Spec        a StatusGroup filled by Update, with the log sink         *)
(*   SpecLong    the same with a message as long as the 8192 limit         *)
(*   SpecStatus  Status::Update folded over a sequence of statuses         *)
(*   SpecDerived MakeDerived and IsDerived on statuses made by callers,    *)
(*               and a StatusGroup given what MakeDerived returns          *)
(*   SpecSink    the log sink under every environment value                *)
(*   SpecCalls   a StatusGroup summarized while filled and logged to       *)
(*   SpecPayload two Status objects with their State objects by address    *)
(*   SpecEnable  threads inside StatusLogSink::enable at the same time     *)
(*   SpecLock    threads inside Send and GetMessages at the same time      *)
(***************************************************************************)
EXTENDS Integers, Sequences, FiniteSets

VARIABLES
  st,            \* SpecStatus: the receiver of Status::Update
  applied,       \* SpecStatus: the statuses passed to Status::Update so far (history)
  d_parts,       \* SpecDerived: the parts the caller's message was concatenated from
  d_arg,         \* SpecDerived: the status handed to the first MakeDerived
  d_ret,         \* SpecDerived: results of the successive MakeDerived calls
  d_abort,       \* SpecDerived: assert(code != OK) of the constructor failed
  num_ok_,       \* StatusGroup::num_ok_
  ok_,           \* StatusGroup::ok_
  children_,     \* StatusGroup::children_
  recent_logs_,  \* StatusGroup::recent_logs_
  updates,       \* the statuses passed to StatusGroup::Update so far (history)
  env,           \* TF_WORKER_NUM_FORWARDED_LOG_MESSAGES as getenv sees it
  flag_,         \* StatusLogSink::flag_ (absl::once_flag)
  num_messages_, \* StatusLogSink::num_messages_
  messages_,     \* StatusLogSink::messages_
  sinks,         \* how many times TFAddLogSink registered the sink
  sent,          \* the log entries delivered to Send so far (history)
  attach_at,     \* Len(sent) at the last AttachLogMessages, -1 before the first (history)
  rs,            \* SpecCalls: what as_summary_status() returned since the group last changed
  rc,            \* SpecCalls: what as_concatenated_status() returned since then
  e_pc,          \* SpecEnable: where each thread stands in enable()
  e_calls,       \* SpecEnable: the calls of enable() each thread has returned from
  e_runs,        \* SpecEnable: how many times the lambda of enable() was entered (history)
  mu_,           \* SpecLock: the holder of StatusLogSink::mu_
  c_pc,          \* SpecLock: where each thread stands in Send / GetMessages
  c_entry,       \* SpecLock: the entry each sending thread was called with
  c_logs,        \* SpecLock: the vector GetMessages is filling
  c_idx,         \* SpecLock: how many elements the loop of GetMessages has passed
  c_snaps,       \* SpecLock: the vectors GetMessages returned (history)
  c_hist,        \* SpecLock: the deque after each whole Send, oldest first (history)
  heap,          \* SpecPayload: the State objects allocated so far, by address
  h_ptr,         \* SpecPayload: state_ of each Status object, an address or nullptr
  h_val,         \* SpecPayload: the value each Status object should have (history)
  h_ret,         \* SpecPayload: the payload operations made and what they returned
  h_how          \* SpecPayload: the operation that made the copy

vars == <<st, applied, d_parts, d_arg, d_ret, d_abort, num_ok_, ok_, children_,
          recent_logs_, updates, env, flag_, num_messages_, messages_, sinks, sent,
          attach_at, rs, rc, e_pc, e_calls, e_runs, mu_, c_pc, c_entry, c_logs,
          c_idx, c_snaps, c_hist, heap, h_ptr, h_val, h_ret, h_how>>

statusVars == <<st, applied>>
derivedVars == <<d_parts, d_arg, d_ret, d_abort>>
groupVars == <<num_ok_, ok_, children_, recent_logs_, updates, attach_at>>
sinkVars == <<env, flag_, num_messages_, messages_, sinks, sent>>
callVars == <<rs, rc>>
enableVars == <<e_pc, e_calls, e_runs>>
lockVars == <<mu_, c_pc, c_entry, c_logs, c_idx, c_snaps, c_hist>>
heapVars == <<heap, h_ptr, h_val, h_ret, h_how>>

-----------------------------------------------------------------------------
(* Bounds of the model. *)

\* Parts a caller's message is concatenated from (SpecDerived).
MaxParts == 2
\* Successive MakeDerived calls on one status (SpecDerived).
MaxDerivedCalls == 2
MaxDerivedUpdates == 2
\* Status::Update calls on one receiver (SpecStatus).
MaxApplied == 3
\* StatusGroup::Update calls on one group (Spec).
MaxUpdates == 3
\* StatusGroup::Update calls on a group with long messages (SpecLong).
MaxLongUpdates == 3
\* Log entries delivered to the sink (SpecSink).
MaxSent == 7
\* Log entries delivered to the sink while a group is filled (Spec, SpecLong).
MaxGroupSent == 1
MaxCallsUpdates == 2
MaxCallsSent == 2
NumEnableThreads == 2
MaxEnableCalls == 2
NumSenders == 2
MaxLockSent == 3
MaxSnapshots == 2

-----------------------------------------------------------------------------
(* std::string *)

Min(a, b) == IF a < b THEN a ELSE b

\* std::string::npos, as the "not found" result of find.
npos == -1

\* strings::StrCat of two strings.
StrCat(a, b) == a \o b

\* s.substr(pos, n), for pos <= s.size().
substr(s, pos, n) == SubSeq(s, pos + 1, Min(Len(s), pos + n))

\* The printable ASCII characters 0x20 .. 0x5f and 0x61 .. 0x7e, in order (a
\* TLA+ string cannot hold the grave accent, 0x60).
PrintableLow == <<" ","!","\"","#","$","%","&","'","(",")","*","+",",","-",".","/","0","1","2","3","4","5","6","7","8","9",":",";","<","=",">","?","@","A","B","C","D","E","F","G","H","I","J","K","L","M","N","O","P","Q","R","S","T","U","V","W","X","Y","Z","[","\\","]","^","_">>
PrintableHigh == <<"a","b","c","d","e","f","g","h","i","j","k","l","m","n","o","p","q","r","s","t","u","v","w","x","y","z","{","|","}","~">>

\* Whether t occurs in s at the 0-based position i.
MatchAt(s, t, i) == \A k \in 1..Len(t) : s[i + k] = t[k]

\* The characters of the model's texts.
Chars ==
  {"\n", "\t", "\r"} \cup {PrintableLow[i] : i \in 1..Len(PrintableLow)}
                     \cup {PrintableHigh[i] : i \in 1..Len(PrintableHigh)}

RECURSIVE CharPositions(_, _, _, _)
\* The positions lo..hi of s (from 1) that hold the character c, by halving: a
\* stretch all of whose characters are others holds none.
CharPositions(s, c, lo, hi) ==
  IF lo > hi \/ SubSeq(s, lo, hi) \in Seq(Chars \ {c}) THEN {}
  ELSE IF lo = hi THEN (IF s[lo] = c THEN {lo} ELSE {})
  ELSE CharPositions(s, c, lo, (lo + hi) \div 2)
         \cup CharPositions(s, c, ((lo + hi) \div 2) + 1, hi)

\* The 0-based positions where t occurs in s: those where its first character
\* stands and the rest follows.
Matches(s, t) ==
  IF t = <<>> THEN 0..Len(s)
  ELSE {i \in {p - 1 : p \in CharPositions(s, t[1], 1, Len(s) - Len(t) + 1)} :
          MatchAt(s, t, i)}

\* s.find(t): the lowest position where t occurs in s, npos when there is none.
find(s, t) ==
  LET where == Matches(s, t)
  IN  IF where = {} THEN npos ELSE CHOOSE i \in where : \A j \in where : i <= j

RECURSIVE StrJoin(_, _)
\* absl::StrJoin(parts, sep).
StrJoin(parts, sep) ==
  IF parts = <<>> THEN <<>>
  ELSE IF Len(parts) = 1 THEN parts[1]
  ELSE parts[1] \o sep \o StrJoin(Tail(parts), sep)

Digits == <<"0","1","2","3","4","5","6","7","8","9">>

RECURSIVE ToDec(_)
\* A non-negative integer as printed by %zu, %d and StrCat.
ToDec(n) == IF n < 10 THEN <<Digits[n + 1]>> ELSE ToDec(n \div 10) \o <<Digits[(n % 10) + 1]>>

HexDigits == <<"0","1","2","3","4","5","6","7","8","9","a","b","c","d","e","f">>

\* The byte value of a character of the model's alphabet.
CharCode(c) ==
  IF c = "\n" THEN 10
  ELSE IF c = "\t" THEN 9
  ELSE IF c = "\r" THEN 13
  ELSE IF \E i \in 1..Len(PrintableLow) : PrintableLow[i] = c
       THEN 31 + (CHOOSE i \in 1..Len(PrintableLow) : PrintableLow[i] = c)
  ELSE 96 + (CHOOSE i \in 1..Len(PrintableHigh) : PrintableHigh[i] = c)

\* std::string's operator<, the key order of the payload map.
StrLess(a, b) ==
  \E i \in 1..(Min(Len(a), Len(b)) + 1) :
    /\ \A j \in 1..(i - 1) : a[j] = b[j]
    /\ \/ i = Len(a) + 1 /\ i <= Len(b)
       \/ i <= Len(a) /\ i <= Len(b) /\ CharCode(a[i]) < CharCode(b[i])

\* absl::CHexEscape of one byte: C escapes for \n \r \t \" \' \\, the byte itself
\* when printable, \xNN otherwise.
CHexEscapeChar(c) ==
  IF c = "\n" THEN <<"\\","n">>
  ELSE IF c = "\r" THEN <<"\\","r">>
  ELSE IF c = "\t" THEN <<"\\","t">>
  ELSE IF c = "\"" THEN <<"\\","\"">>
  ELSE IF c = "'" THEN <<"\\","'">>
  ELSE IF c = "\\" THEN <<"\\","\\">>
  ELSE IF CharCode(c) >= 32 /\ CharCode(c) < 127 THEN <<c>>
  ELSE <<"\\", "x", HexDigits[(CharCode(c) \div 16) + 1], HexDigits[(CharCode(c) % 16) + 1]>>

RECURSIVE CHexEscape(_)
CHexEscape(s) == IF s = <<>> THEN <<>> ELSE CHexEscapeChar(Head(s)) \o CHexEscape(Tail(s))

-----------------------------------------------------------------------------
(* tensorflow::error::Code and Status *)

OK == 0
CANCELLED == 1
UNKNOWN == 2
INVALID_ARGUMENT == 3
DEADLINE_EXCEEDED == 4
NOT_FOUND == 5
ALREADY_EXISTS == 6
PERMISSION_DENIED == 7
RESOURCE_EXHAUSTED == 8
FAILED_PRECONDITION == 9
ABORTED == 10
OUT_OF_RANGE == 11
UNIMPLEMENTED == 12
INTERNAL == 13
UNAVAILABLE == 14
DATA_LOSS == 15
UNAUTHENTICATED == 16

\* error_name(code)
error_name(code) ==
  CASE code = OK -> <<"O","K">>
    [] code = CANCELLED -> <<"C","A","N","C","E","L","L","E","D">>
    [] code = UNKNOWN -> <<"U","N","K","N","O","W","N">>
    [] code = INVALID_ARGUMENT -> <<"I","N","V","A","L","I","D","_","A","R","G","U","M","E","N","T">>
    [] code = DEADLINE_EXCEEDED -> <<"D","E","A","D","L","I","N","E","_","E","X","C","E","E","D","E","D">>
    [] code = NOT_FOUND -> <<"N","O","T","_","F","O","U","N","D">>
    [] code = ALREADY_EXISTS -> <<"A","L","R","E","A","D","Y","_","E","X","I","S","T","S">>
    [] code = PERMISSION_DENIED -> <<"P","E","R","M","I","S","S","I","O","N","_","D","E","N","I","E","D">>
    [] code = UNAUTHENTICATED -> <<"U","N","A","U","T","H","E","N","T","I","C","A","T","E","D">>
    [] code = RESOURCE_EXHAUSTED -> <<"R","E","S","O","U","R","C","E","_","E","X","H","A","U","S","T","E","D">>
    [] code = FAILED_PRECONDITION -> <<"F","A","I","L","E","D","_","P","R","E","C","O","N","D","I","T","I","O","N">>
    [] code = ABORTED -> <<"A","B","O","R","T","E","D">>
    [] code = OUT_OF_RANGE -> <<"O","U","T","_","O","F","_","R","A","N","G","E">>
    [] code = UNIMPLEMENTED -> <<"U","N","I","M","P","L","E","M","E","N","T","E","D">>
    [] code = INTERNAL -> <<"I","N","T","E","R","N","A","L">>
    [] code = UNAVAILABLE -> <<"U","N","A","V","A","I","L","A","B","L","E">>
    [] code = DATA_LOSS -> <<"D","A","T","A","_","L","O","S","S">>
    [] OTHER -> <<"U","N","K","N","O","W","N","_","C","O","D","E","(">> \o (IF code < 0 THEN <<"-">> \o ToDec(0 - code) ELSE ToDec(code)) \o <<")">>

\* A null state_: the unique_ptr of a Status holds no State. The pointer is a
\* sequence of no State or of one.
nullptr == <<>>

\* A payload map with no entry.
NoPayloads == [u \in {} |-> <<>>]

\* Status::OK(), the default-constructed Status.
StatusOK == [state_ |-> nullptr]

\* Status::Status(code, msg, stack_trace) past its assert: a freshly allocated
\* State with the code, the message, the stack trace and no payloads.
Status(code, msg, stack_trace) ==
  [state_ |-> <<[code |-> code, msg |-> msg, stack_trace |-> stack_trace,
                 payloads |-> NoPayloads]>>]

\* The assert of the constructor: code != OK.
StatusAssert(code) == code # OK

\* Status::ok()
ok(s) == s.state_ = nullptr

\* Status::code()
code(s) == IF ok(s) THEN OK ELSE s.state_[1].code

\* Status::empty_string()
empty_string == <<>>

\* Status::error_message()
error_message(s) == IF ok(s) THEN empty_string ELSE s.state_[1].msg

\* Status::SlowCopyFrom(src): a null state_ for a null src, else a new State
\* copy-constructed from *src.
SlowCopyFrom(src) == IF src = nullptr THEN nullptr ELSE <<src[1]>>

\* Status's copy (constructor and assignment): the state is copied by SlowCopyFrom.
Copy(s) == [state_ |-> SlowCopyFrom(s.state_)]

\* A SetPayload without the early return: on an OK status it makes a State to
\* hold the payload.
SetPayloadUnguarded(s, type_url, payload) ==
  LET state == IF ok(s) THEN [code |-> OK, msg |-> <<>>, stack_trace |-> <<>>,
                              payloads |-> NoPayloads]
               ELSE s.state_[1]
  IN  [state_ |-> <<[state EXCEPT !.payloads =
          [u \in (DOMAIN state.payloads) \cup {type_url} |->
             IF u = type_url THEN payload ELSE state.payloads[u]]]>>]

\* Status::SetPayload(type_url, payload): the status after the call.
SetPayload(s, type_url, payload) ==
  IF ok(s) THEN s
  ELSE [state_ |-> <<[s.state_[1] EXCEPT !.payloads =
          [u \in (DOMAIN s.state_[1].payloads) \cup {type_url} |->
             IF u = type_url THEN payload ELSE s.state_[1].payloads[u]]]>>]

RECURSIVE SortedKeys(_)
\* The keys of a payload map in the order the map iterates them.
SortedKeys(keys) ==
  IF keys = {} THEN <<>>
  ELSE LET k == CHOOSE x \in keys : \A y \in keys \ {x} : StrLess(x, y)
       IN  <<k>> \o SortedKeys(keys \ {k})

RECURSIVE PayloadsToString(_, _)
\* The loop of ToString: " [url='escaped payload']" per payload, in map order.
PayloadsToString(payloads, keys) ==
  IF keys = <<>> THEN <<>>
  ELSE <<" ","[">> \o Head(keys) \o <<"=","'">> \o CHexEscape(payloads[Head(keys)]) \o <<"'","]">>
       \o PayloadsToString(payloads, Tail(keys))

\* Status::ToString()
ToString(s) ==
  IF s.state_ = nullptr THEN <<"O","K">>
  ELSE error_name(code(s)) \o <<":"," ">> \o s.state_[1].msg
       \o PayloadsToString(s.state_[1].payloads, SortedKeys(DOMAIN s.state_[1].payloads))

\* Status::GetPayload(type_url): absl::nullopt is <<>>, a payload p is <<p>>.
GetPayload(s, type_url) ==
  IF ok(s) THEN <<>>
  ELSE IF type_url \notin DOMAIN s.state_[1].payloads THEN <<>>
  ELSE <<s.state_[1].payloads[type_url]>>

\* Status::ErasePayload(type_url): what the call returns.
ErasePayloadReturns(s, type_url) ==
  IF ok(s) THEN FALSE
  ELSE type_url \in DOMAIN s.state_[1].payloads

\* Status::ErasePayload(type_url): the status after the call.
ErasePayload(s, type_url) ==
  IF ok(s) THEN s
  ELSE IF type_url \notin DOMAIN s.state_[1].payloads THEN s
  ELSE [state_ |-> <<[s.state_[1] EXCEPT !.payloads =
          [u \in (DOMAIN s.state_[1].payloads) \ {type_url} |-> s.state_[1].payloads[u]]]>>]

\* Status::ForEachPayload(visitor): the calls of the visitor, in order.
ForEachPayload(s) ==
  IF ok(s) THEN <<>>
  ELSE LET keys == SortedKeys(DOMAIN s.state_[1].payloads)
       IN  [i \in 1..Len(keys) |-> <<keys[i], s.state_[1].payloads[keys[i]]>>]

\* A Status::Update that overwrites the receiver whatever it holds.
StatusUpdateLastWins(self, new_status) == Copy(new_status)

\* Status::Update(new_status) on the receiver self: the receiver after the call.
StatusUpdate(self, new_status) == IF ok(self) THEN Copy(new_status) ELSE self

-----------------------------------------------------------------------------
(* Derived-error marking *)

kDerivedMarker == <<"[","_","D","e","r","i","v","e","d","_","]">>

\* An IsDerived that looks for the marker at the start of the message only.
IsDerivedPrefixOnly(s) ==
  /\ Len(error_message(s)) >= Len(kDerivedMarker)
  /\ MatchAt(error_message(s), kDerivedMarker, 0)

\* StatusGroup::IsDerived(s)
IsDerived(s) == find(error_message(s), kDerivedMarker) # npos

\* A MakeDerived without the IsDerived test: it prefixes the marker every time.
MakeDerivedAlwaysMarks(s) == Status(code(s), StrCat(kDerivedMarker, error_message(s)), <<>>)

\* A MakeDerived that hands an OK status back as it is.
MakeDerivedPassesOk(s) ==
  IF ok(s) \/ IsDerived(s) THEN s
  ELSE Status(code(s), StrCat(kDerivedMarker, error_message(s)), <<>>)

\* StatusGroup::MakeDerived(s), past the constructor's assert.
MakeDerived(s) ==
  IF IsDerived(s) THEN s
  ELSE Status(code(s), StrCat(kDerivedMarker, error_message(s)), <<>>)

-----------------------------------------------------------------------------
(* The state after construction *)

StatusInit == st = StatusOK /\ applied = <<>>

DerivedInit == d_parts = <<>> /\ d_arg = StatusOK /\ d_ret = <<>> /\ d_abort = FALSE

\* StatusGroup's members as its header initialises them.
GroupInit ==
  /\ num_ok_ = 0
  /\ ok_ = TRUE
  /\ children_ = <<>>
  /\ recent_logs_ = <<>>
  /\ updates = <<>>
  /\ attach_at = -1

\* StatusLogSink after GetInstance(): num_messages_ = 0, no message, the
\* once_flag not yet used, the sink not registered.
SinkInit(environment) ==
  /\ env \in environment
  /\ flag_ = "init"
  /\ num_messages_ = 0
  /\ messages_ = <<>>
  /\ sinks = 0
  /\ sent = <<>>

\* No call of as_summary_status() or as_concatenated_status() made yet.
CallInit == rs = <<>> /\ rc = <<>>

\* The threads that call StatusGroup::ConfigureLogHistory().
EnableThreads == 1..NumEnableThreads

\* No thread has called enable() yet.
EnableInit ==
  /\ e_pc = [t \in EnableThreads |-> "idle"]
  /\ e_calls = [t \in EnableThreads |-> 0]
  /\ e_runs = 0

\* The threads that write log entries, and the one that takes snapshots.
Senders == 1..NumSenders
Reader == 0
NoThread == -1

\* What a sending thread holds while it is not inside Send: an entry of the
\* lowest severity without text.
NoEntry == [severity |-> 0, text |-> <<>>]

\* mu_ is free, and no thread is inside Send or GetMessages.
LockInit ==
  /\ mu_ = NoThread
  /\ c_pc = [t \in Senders \cup {Reader} |-> "idle"]
  /\ c_entry = [t \in Senders |-> NoEntry]
  /\ c_logs = <<>>
  /\ c_idx = 0
  /\ c_snaps = <<>>
  /\ c_hist = <<>>

\* The two Status objects of SpecPayload, and the null pointer.
Objects == {"orig", "copy"}
NullAddr == 0

\* No payload function called yet.
NoCall ==
  [obj |-> "none", op |-> "none", type_url |-> <<>>, payload |-> <<>>,
   erased |-> FALSE, got |-> <<>>, visited |-> <<>>]

\* Two default-constructed Status objects: no State allocated, state_ null.
HeapInit ==
  /\ heap = <<>>
  /\ h_ptr = [o \in Objects |-> NullAddr]
  /\ h_val = StatusOK
  /\ h_ret = NoCall
  /\ h_how = "none"

\* The variables of the other specifications, at rest.
OtherInit == CallInit /\ EnableInit /\ LockInit /\ HeapInit

\* The sequences of at most n elements of S.
SeqsUpTo(S, n) == UNION {[1..k -> S] : k \in 0..n}

RECURSIVE Concat(_)
\* The concatenation of a sequence of strings.
Concat(parts) == IF parts = <<>> THEN <<>> ELSE Head(parts) \o Concat(Tail(parts))

-----------------------------------------------------------------------------
(* SpecStatus: Status::Update folded over a sequence of statuses *)

\* A failing status carrying one payload.
WithPayload(s, type_url, payload) == SetPayload(s, type_url, payload)

\* The statuses callers pass to Status::Update.
StatusInputs ==
  { StatusOK,
    Status(CANCELLED, <<"c","1">>, <<>>),
    Status(NOT_FOUND, <<"m","i","s","s","i","n","g"," ","x">>, <<>>),
    WithPayload(Status(NOT_FOUND, <<"m","i","s","s","i","n","g"," ","x">>, <<>>), <<"u","r","l">>, <<"a","'","b">>),
    Status(INTERNAL, <<>>, <<>>) }

\* self.Update(s)
StatusUpdateCall(s) ==
  /\ Len(applied) < MaxApplied
  /\ st' = StatusUpdate(st, s)
  /\ applied' = Append(applied, s)
  /\ UNCHANGED <<derivedVars, groupVars, sinkVars,
               callVars, enableVars, lockVars, heapVars>>

NextStatus == \E s \in StatusInputs : StatusUpdateCall(s)

InitStatus == StatusInit /\ DerivedInit /\ GroupInit /\ SinkInit({"unset"}) /\ OtherInit

SpecStatus == InitStatus /\ [][NextStatus]_vars

-----------------------------------------------------------------------------
(* SpecDerived: MakeDerived and IsDerived on caller-made statuses *)

PartHead == <<"[","_","D","e","r","i","v">>
PartTail == <<"e","d","_","]">>
PartText == <<"x">>

\* The texts a caller's message is put together from: the marker itself, its two
\* halves, and ordinary text.
DerivedParts == {kDerivedMarker, PartHead, PartTail, PartText}

DerivedCodes == {CANCELLED, ABORTED}

\* The caller constructs a status: OK, or failing with a message of some parts.
DerivedStart ==
  /\ d_parts \in SeqsUpTo(DerivedParts, MaxParts)
  /\ d_arg \in {Status(c, Concat(d_parts), <<>>) : c \in DerivedCodes}
                 \cup (IF d_parts = <<>> THEN {StatusOK} ELSE {})
  /\ d_ret = <<>>
  /\ d_abort = FALSE

\* The status the next MakeDerived call is applied to.
DerivedSubject == IF d_ret = <<>> THEN d_arg ELSE d_ret[Len(d_ret)]

\* MakeDerived(s) on the last result (on the caller's status at first). When the
\* constructor is reached with code OK its assert fails: the build with asserts
\* aborts, the NDEBUG build goes on and constructs the State.
MakeDerivedCall ==
  /\ ~d_abort
  /\ Len(d_ret) < MaxDerivedCalls
  /\ IF IsDerived(DerivedSubject) \/ StatusAssert(code(DerivedSubject))
     THEN d_ret' = Append(d_ret, MakeDerived(DerivedSubject)) /\ UNCHANGED d_abort
     ELSE \/ d_abort' = TRUE /\ UNCHANGED d_ret
          \/ d_ret' = Append(d_ret, MakeDerived(DerivedSubject)) /\ UNCHANGED d_abort
  /\ UNCHANGED <<d_parts, d_arg, statusVars, groupVars, sinkVars,
               callVars, enableVars, lockVars, heapVars>>

-----------------------------------------------------------------------------
(* StatusLogSink *)

\* absl::LogSeverity
kInfo == 0
kWarning == 1
kError == 2
kFatal == 3

\* The default of num_messages_ that enable() sets.
kDefaultNumMessages == 5

\* The digit a character stands for, 36 when it is none (absl's kAsciiToInt,
\* for the characters of the model's environment values).
AsciiToInt(c) ==
  IF \E d \in 0..9 : Digits[d + 1] = c THEN CHOOSE d \in 0..9 : Digits[d + 1] = c ELSE 36

RECURSIVE ParsePositiveInt(_, _)
\* absl's safe_parse_positive_int for base 10 and values within int: the digits
\* parsed so far are the value, also when a character that is no digit stops it.
ParsePositiveInt(text, value) ==
  IF text = <<>> THEN [ok |-> TRUE, value |-> value]
  ELSE IF AsciiToInt(Head(text)) >= 10 THEN [ok |-> FALSE, value |-> value]
  ELSE ParsePositiveInt(Tail(text), value * 10 + AsciiToInt(Head(text)))

\* absl::SimpleAtoi(str, &out) for a text without blanks: whether it parsed and
\* what it left in out (0 for an empty text, the digits parsed before the first
\* wrong character otherwise).
SimpleAtoi(str) ==
  IF str = <<>> \/ str = <<"-">> \/ str = <<"+">> THEN [ok |-> FALSE, value |-> 0]
  ELSE IF Head(str) = "-"
    THEN LET r == ParsePositiveInt(Tail(str), 0) IN [ok |-> r.ok, value |-> 0 - r.value]
  ELSE IF Head(str) = "+" THEN ParsePositiveInt(Tail(str), 0)
  ELSE ParsePositiveInt(str, 0)

\* num_messages_ as the lambda of enable() leaves it for an environment value.
ConfiguredNumMessages(e) ==
  IF e = "unset" THEN kDefaultNumMessages ELSE SimpleAtoi(e).value

\* StatusLogSink::enable(): the lambda runs under call_once, so once; a later
\* call finds the flag set and returns. The warning the lambda logs for a value
\* that does not parse is written before the sink is registered.
enable ==
  IF flag_ = "init"
  THEN /\ flag_' = "done"
       /\ num_messages_' = ConfiguredNumMessages(env)
       /\ sinks' = IF ConfiguredNumMessages(env) > 0 THEN sinks + 1 ELSE sinks
  ELSE UNCHANGED <<flag_, num_messages_, sinks>>

\* size > static_cast<size_t>(n) for the size of a container and an int n: a
\* negative n casts to a value above every size.
ExceedsSizeT(size, n) == n >= 0 /\ size > n

\* TFLogEntry::ToString(): the text of the entry.
EntryToString(entry) == entry.text

\* A Send that never pops the front.
SendNoEviction(entry) ==
  IF entry.severity < kWarning THEN messages_ ELSE Append(messages_, EntryToString(entry))

\* The deque after Send(entry): nothing below kWarning; else the text is put at
\* the back, and the front is popped when the size exceeds num_messages_.
SendMessages(entry) ==
  IF entry.severity < kWarning THEN messages_
  ELSE LET pushed == Append(messages_, EntryToString(entry))
       IN  IF ExceedsSizeT(Len(pushed), num_messages_) THEN Tail(pushed) ELSE pushed

\* StatusLogSink::GetMessages(logs): the vector after the call.
GetMessages(logs) == logs \o messages_

\* StatusGroup::ConfigureLogHistory()
ConfigureLogHistory ==
  /\ enable
  /\ UNCHANGED <<env, messages_, sent, statusVars, derivedVars, groupVars,
               callVars, enableVars, lockVars, heapVars>>

\* StatusLogSink::Send(entry), called by the logging system for every entry once
\* the sink is registered.
Send(entry) ==
  /\ sinks > 0
  /\ messages_' = SendMessages(entry)
  /\ sent' = Append(sent, entry)
  /\ UNCHANGED <<env, flag_, num_messages_, sinks, statusVars, derivedVars, groupVars,
               callVars, enableVars, lockVars, heapVars>>

-----------------------------------------------------------------------------
(* StatusGroup *)

kMaxAggregatedStatusMessageSize == 8 * 1024
kMaxAttachedLogMessageSize == 512

\* A StatusGroup::Update that does not clear ok_.
UpdateKeepsOk(s) ==
  /\ IF ok(s)
     THEN num_ok_' = num_ok_ + 1 /\ UNCHANGED <<ok_, children_>>
     ELSE children_' = Append(children_, Copy(s)) /\ UNCHANGED <<ok_, num_ok_>>
  /\ updates' = Append(updates, s)
  /\ UNCHANGED <<recent_logs_, attach_at, statusVars, derivedVars, sinkVars,
               enableVars, lockVars, heapVars>>

\* A StatusGroup::Update that counts every status, failing ones too.
UpdateCountsAll(s) ==
  /\ IF ok(s)
     THEN num_ok_' = num_ok_ + 1 /\ UNCHANGED <<ok_, children_>>
     ELSE /\ ok_' = FALSE
          /\ children_' = Append(children_, Copy(s))
          /\ num_ok_' = num_ok_ + 1
  /\ updates' = Append(updates, s)
  /\ UNCHANGED <<recent_logs_, attach_at, statusVars, derivedVars, sinkVars,
               enableVars, lockVars, heapVars>>

\* StatusGroup::Update(s)
Update(s) ==
  /\ IF ok(s)
     THEN num_ok_' = num_ok_ + 1 /\ UNCHANGED <<ok_, children_>>
     ELSE ok_' = FALSE /\ children_' = Append(children_, Copy(s)) /\ UNCHANGED num_ok_
  /\ updates' = Append(updates, s)
  /\ UNCHANGED <<recent_logs_, attach_at, statusVars, derivedVars, sinkVars,
               enableVars, lockVars, heapVars>>

\* A GetNonDerivedStatuses that keeps the derived statuses too.
GetNonDerivedStatusesAll(status) == status

\* GetNonDerivedStatuses(status)
GetNonDerivedStatuses(status) ==
  LET NotDerived(s) == ~IsDerived(s) IN SelectSeq(status, NotDerived)

\* A get_recent_logs that attaches every line whole.
get_recent_logs_uncut(logs) ==
  IF logs # <<>>
  THEN StrJoin(<<<<"\n","R","e","c","e","n","t"," ","w","a","r","n","i","n","g"," ","a","n","d"," ","e","r","r","o","r"," ","l","o","g","s",":">>>> \o
               [i \in 1..Len(logs) |-> <<" "," ">> \o logs[i]],
               <<"\n">>)
  ELSE <<>>

\* A get_recent_logs that returns no block.
get_recent_logs_never(logs) == <<>>

\* The lambda get_recent_logs of as_summary_status.
get_recent_logs(logs) ==
  IF logs # <<>>
  THEN StrJoin(<<<<"\n","R","e","c","e","n","t"," ","w","a","r","n","i","n","g"," ","a","n","d"," ","e","r","r","o","r"," ","l","o","g","s",":">>>> \o
               [i \in 1..Len(logs) |-> <<" "," ">> \o substr(logs[i], 0, kMaxAttachedLogMessageSize)],
               <<"\n">>)
  ELSE <<>>

RECURSIVE SummaryCodeFrom(_, _)
\* The code the loop over the roots ends with, from the code c it has so far.
SummaryCodeFrom(roots, c) ==
  IF roots = <<>> THEN c
  ELSE SummaryCodeFrom(Tail(roots),
         IF c = CANCELLED /\ code(Head(roots)) # CANCELLED THEN code(Head(roots)) ELSE c)

\* A summary code that is the first root's, CANCELLED or not.
SummaryCodeFirstRoot(roots) == code(roots[1])

\* The code of the multi-root summary: CANCELLED unless a root has another code.
SummaryCode(roots) == SummaryCodeFrom(roots, CANCELLED)

\* A root line whose indices start at 1.
RootLineFromOne(index, s) == StrCat(<<" "," ","(">> \o ToDec(index + 1) \o <<")"," ">>, ToString(s))

\* The line of the root with the given index.
RootLine(index, s) == StrCat(<<" "," ","(">> \o ToDec(index) \o <<")"," ">>, ToString(s))

\* fmt of the multi-root summary: the header, a line per root, the two footers.
SummaryFmt(roots, num_ok, num_children) ==
  <<ToDec(Len(roots)) \o <<" ","r","o","o","t"," ","e","r","r","o","r","(","s",")"," ","f","o","u","n","d",".">>>>
  \o [i \in 1..Len(roots) |-> RootLine(i - 1, roots[i])]
  \o <<ToDec(num_ok) \o <<" ","s","u","c","c","e","s","s","f","u","l"," ","o","p","e","r","a","t","i","o","n","s",".">>,
       ToDec(num_children - Len(roots)) \o <<" ","d","e","r","i","v","e","d"," ","e","r","r","o","r","s"," ","i","g","n","o","r","e","d",".">>>>

\* StatusGroup::as_summary_status()
as_summary_status ==
  IF ok_ THEN StatusOK
  ELSE LET nonderived_statuses == GetNonDerivedStatuses(children_)
       IN  IF Len(nonderived_statuses) = 1
           THEN Status(code(nonderived_statuses[1]),
                       StrCat(error_message(nonderived_statuses[1]),
                              get_recent_logs(recent_logs_)),
                       <<>>)
           ELSE IF nonderived_statuses # <<>>
           THEN LET fmt == SummaryFmt(nonderived_statuses, num_ok_, Len(children_))
                    error_msg == substr(StrJoin(fmt, <<"\n">>), 0,
                                        kMaxAggregatedStatusMessageSize)
                IN  Status(SummaryCode(nonderived_statuses),
                           StrCat(error_msg, get_recent_logs(recent_logs_)), <<>>)
           ELSE Copy(children_[1])

\* A concatenation code that passes over CANCELLED as the summary does.
ConcatenatedCodeAvoidsCancelled(roots) == SummaryCode(roots)

\* The code of the multi-root concatenation: the code of the first root.
ConcatenatedCode(roots) == code(roots[1])

\* fmt of the multi-root concatenation.
ConcatenatedFmt(roots) ==
  <<<<"\n","=","=","=","=","=","=","=","=","=","=","=","=","=","=","=","=","=","=","=","=","=">>>>
  \o [i \in 1..Len(roots) |-> ToString(roots[i])]
  \o <<<<"=","=","=","=","=","=","=","=","=","=","=","=","=","=","=","=","=","=","=","=","=","\n">>>>

\* StatusGroup::as_concatenated_status()
as_concatenated_status ==
  IF ok_ THEN StatusOK
  ELSE LET nonderived_statuses == GetNonDerivedStatuses(children_)
       IN  IF Len(nonderived_statuses) = 1
           THEN Copy(nonderived_statuses[1])
           ELSE IF nonderived_statuses # <<>>
           THEN Status(ConcatenatedCode(nonderived_statuses),
                       substr(StrJoin(ConcatenatedFmt(nonderived_statuses), <<"\n">>), 0,
                              kMaxAggregatedStatusMessageSize),
                       <<>>)
           ELSE Copy(children_[1])

\* An AttachLogMessages that does not clear recent_logs_ first.
AttachLogMessagesKeeps ==
  /\ recent_logs_' = GetMessages(recent_logs_)
  /\ attach_at' = Len(sent)
  /\ UNCHANGED <<num_ok_, ok_, children_, updates, statusVars, derivedVars, sinkVars,
               enableVars, lockVars, heapVars>>

\* StatusGroup::AttachLogMessages(): recent_logs_.clear(), then GetMessages
\* fills it. attach_at notes how many entries the sink had been sent by then.
AttachLogMessages ==
  /\ recent_logs_' = GetMessages(<<>>)
  /\ attach_at' = Len(sent)
  /\ UNCHANGED <<num_ok_, ok_, children_, updates, statusVars, derivedVars, sinkVars,
               enableVars, lockVars, heapVars>>

-----------------------------------------------------------------------------
(* SpecDerived, completed: what MakeDerived returns is given to a StatusGroup *)

\* The statuses handed to a StatusGroup: the caller's status, what MakeDerived
\* returned for it, and a root error of another operation.
DerivedUpdates ==
  {d_arg} \cup {d_ret[i] : i \in 1..Len(d_ret)}
          \cup {Status(INTERNAL, <<"b","o","o","m">>, <<>>)}

\* group.Update(s), as long as the program has not aborted.
DerivedUpdate ==
  \E s \in DerivedUpdates :
    /\ ~d_abort
    /\ Len(updates) < MaxDerivedUpdates
    /\ Update(s)
    /\ UNCHANGED callVars

NextDerived == MakeDerivedCall \/ DerivedUpdate

InitDerived == StatusInit /\ DerivedStart /\ GroupInit /\ SinkInit({"unset"}) /\ OtherInit

SpecDerived == InitDerived /\ [][NextDerived]_vars

-----------------------------------------------------------------------------
(* Spec: a StatusGroup filled by Update, with the log sink beside it *)

\* The statuses callers pass to StatusGroup::Update: OK, three root errors (one
\* carrying a payload) and two derived errors.
GroupInputs ==
  { StatusOK,
    Status(CANCELLED, <<"c","1">>, <<>>),
    WithPayload(Status(NOT_FOUND, <<"m","i","s","s","i","n","g"," ","x">>, <<>>), <<"u","r","l">>, <<"a","'","b">>),
    Status(INTERNAL, <<"b","o","o","m">>, <<>>),
    MakeDerived(Status(ABORTED, <<"s","t","e","p"," ","a","b","o","r","t","e","d">>, <<>>)),
    MakeDerived(Status(CANCELLED, <<"c","2">>, <<>>)) }

\* The log entries written while the group is filled.
GroupEntries ==
  { [severity |-> kInfo, text |-> <<"s","t","a","r","t","i","n","g">>],
    [severity |-> kError, text |-> <<"d","i","s","k"," ","f","u","l","l">>] }

UpdateCall ==
  \E s \in GroupInputs : Len(updates) < MaxUpdates /\ Update(s) /\ UNCHANGED callVars

GroupSend == \E entry \in GroupEntries : Len(sent) < MaxGroupSent /\ Send(entry)

\* group.AttachLogMessages()
AttachCall == AttachLogMessages /\ UNCHANGED callVars

Init == StatusInit /\ DerivedInit /\ GroupInit /\ SinkInit({"unset"}) /\ OtherInit

Next ==
  \/ UpdateCall
  \/ ConfigureLogHistory
  \/ GroupSend
  \/ AttachCall

Spec == Init /\ [][Next]_vars

-----------------------------------------------------------------------------
(* SpecLong: a StatusGroup whose children may carry a very long message *)

\* A message as long as the limit of an aggregated message.
LongMsg == [i \in 1..kMaxAggregatedStatusMessageSize |-> "a"]

\* The statuses passed to Update: OK, two short roots (one carrying a payload),
\* a derived error, and a root with the long message.
LongInputs ==
  { StatusOK,
    Status(CANCELLED, <<"c","1">>, <<>>),
    WithPayload(Status(NOT_FOUND, <<"m","i","s","s","i","n","g"," ","x">>, <<>>), <<"u","r","l">>, <<"a","'","b">>),
    MakeDerived(Status(ABORTED, <<"s","t","e","p"," ","a","b","o","r","t","e","d">>, <<>>)),
    Status(UNKNOWN, LongMsg, <<>>) }

LongUpdateCall ==
  \E s \in LongInputs : Len(updates) < MaxLongUpdates /\ Update(s) /\ UNCHANGED callVars

\* A log line one character longer than the limit of an attached line.
LongLine == [i \in 1..(kMaxAttachedLogMessageSize + 1) |-> "b"]

\* The log entries written while the group is filled: a short one and a long one.
LongEntries ==
  { [severity |-> kError, text |-> <<"d","i","s","k"," ","f","u","l","l">>],
    [severity |-> kWarning, text |-> LongLine] }

LongSend == \E entry \in LongEntries : Len(sent) < MaxGroupSent /\ Send(entry)

NextLong ==
  \/ LongUpdateCall
  \/ ConfigureLogHistory
  \/ LongSend
  \/ AttachCall

SpecLong == Init /\ [][NextLong]_vars

-----------------------------------------------------------------------------
(* SpecSink: the log sink, enabled under an environment, receiving entries *)

\* What TF_WORKER_NUM_FORWARDED_LOG_MESSAGES may hold.
SinkEnvironments == {"unset", <<"2">>, <<"1">>, <<"0">>, <<"-","1">>, <<"x">>, <<"3","x">>}

\* The log entries the program writes: every line has its own text.
SinkEntries ==
  { [severity |-> severity, text |-> <<"l","i","n","e"," ">> \o ToDec(Len(sent))] :
      severity \in {kInfo, kWarning, kError} }

SinkSend == \E entry \in SinkEntries : Len(sent) < MaxSent /\ Send(entry)

InitSink == StatusInit /\ DerivedInit /\ GroupInit /\ SinkInit(SinkEnvironments) /\ OtherInit

NextSink ==
  \/ ConfigureLogHistory
  \/ SinkSend

SpecSink == InitSink /\ [][NextSink]_vars

-----------------------------------------------------------------------------
(* SpecEnable: threads calling ConfigureLogHistory() at the same time *)

\* What a step inside enable() leaves alone.
EnableFrame == UNCHANGED <<statusVars, derivedVars, groupVars, callVars, lockVars, heapVars>>

\* A call_once that lets a thread run the lambda while another is still in it.
OnceMayRunUnlessDone == flag_ # "done"

\* absl::call_once(flag_, ...): the caller runs the lambda when no caller has
\* entered it yet.
OnceMayRun == flag_ = "init"

\* enable() reaches call_once: the first caller enters the lambda, a caller that
\* finds it running waits for it, a caller that finds it done returns.
EnableEnter(t) ==
  /\ e_pc[t] = "idle"
  /\ e_calls[t] < MaxEnableCalls
  /\ IF OnceMayRun
     THEN /\ flag_' = "running"
          /\ e_pc' = [e_pc EXCEPT ![t] = "default"]
          /\ e_runs' = e_runs + 1
          /\ UNCHANGED e_calls
     ELSE IF flag_ = "done"
     THEN /\ e_calls' = [e_calls EXCEPT ![t] = @ + 1]
          /\ UNCHANGED <<flag_, e_pc, e_runs>>
     ELSE /\ e_pc' = [e_pc EXCEPT ![t] = "wait"]
          /\ UNCHANGED <<flag_, e_calls, e_runs>>
  /\ UNCHANGED <<env, num_messages_, messages_, sinks, sent>>
  /\ EnableFrame

\* num_messages_ = 5
EnableDefault(t) ==
  /\ e_pc[t] = "default"
  /\ num_messages_' = kDefaultNumMessages
  /\ e_pc' = [e_pc EXCEPT ![t] = "getenv"]
  /\ UNCHANGED <<env, flag_, messages_, sinks, sent, e_calls, e_runs>>
  /\ EnableFrame

\* getenv, and SimpleAtoi into num_messages_ when the variable is set
EnableGetenv(t) ==
  /\ e_pc[t] = "getenv"
  /\ num_messages_' = IF env = "unset" THEN num_messages_ ELSE SimpleAtoi(env).value
  /\ e_pc' = [e_pc EXCEPT ![t] = "register"]
  /\ UNCHANGED <<env, flag_, messages_, sinks, sent, e_calls, e_runs>>
  /\ EnableFrame

\* if (num_messages_ > 0) TFAddLogSink(this)
EnableRegister(t) ==
  /\ e_pc[t] = "register"
  /\ sinks' = IF num_messages_ > 0 THEN sinks + 1 ELSE sinks
  /\ e_pc' = [e_pc EXCEPT ![t] = "end"]
  /\ UNCHANGED <<env, flag_, num_messages_, messages_, sent, e_calls, e_runs>>
  /\ EnableFrame

\* The lambda returns: call_once sets the flag, and enable() returns.
EnableEnd(t) ==
  /\ e_pc[t] = "end"
  /\ flag_' = "done"
  /\ e_pc' = [e_pc EXCEPT ![t] = "idle"]
  /\ e_calls' = [e_calls EXCEPT ![t] = @ + 1]
  /\ UNCHANGED <<env, num_messages_, messages_, sinks, sent, e_runs>>
  /\ EnableFrame

\* A caller that waited in call_once returns once the flag is set.
EnableWake(t) ==
  /\ e_pc[t] = "wait"
  /\ flag_ = "done"
  /\ e_pc' = [e_pc EXCEPT ![t] = "idle"]
  /\ e_calls' = [e_calls EXCEPT ![t] = @ + 1]
  /\ UNCHANGED <<env, flag_, num_messages_, messages_, sinks, sent, e_runs>>
  /\ EnableFrame

\* One step of one thread inside ConfigureLogHistory().
NextEnable ==
  \E t \in EnableThreads :
    \/ EnableEnter(t)
    \/ EnableDefault(t)
    \/ EnableGetenv(t)
    \/ EnableRegister(t)
    \/ EnableEnd(t)
    \/ EnableWake(t)


InitEnable == StatusInit /\ DerivedInit /\ GroupInit /\ SinkInit(SinkEnvironments) /\ OtherInit

SpecEnable == InitEnable /\ [][NextEnable]_vars

-----------------------------------------------------------------------------
(* SpecPayload: two Status objects, their State objects held by address *)

\* The Status an object is, read through its state_ pointer.
Deref(h, ptr) == [state_ |-> IF ptr = NullAddr THEN nullptr ELSE <<h[ptr]>>]

\* A copy that takes over the pointer of the source.
HeapSlowCopyAliases(h, src) == [heap |-> h, ptr |-> src]

\* Status::SlowCopyFrom(src) with the allocation shown: new State(*src) is a
\* fresh address holding a copy of the source's State.
HeapSlowCopyFrom(h, src) ==
  IF src = NullAddr THEN [heap |-> h, ptr |-> NullAddr]
  ELSE [heap |-> Append(h, SlowCopyFrom(<<h[src]>>)[1]), ptr |-> Len(h) + 1]

\* The heap and the state_ of an object after a member function left it as the
\* status s: the State it owns is written in place.
HeapAfter(h, ptr, s) ==
  IF ok(s) THEN [heap |-> h, ptr |-> NullAddr]
  ELSE IF ptr = NullAddr THEN [heap |-> Append(h, s.state_[1]), ptr |-> Len(h) + 1]
  ELSE [heap |-> [h EXCEPT ![ptr] = s.state_[1]], ptr |-> ptr]

\* The statuses the first object is constructed as.
PayloadStatuses ==
  { StatusOK,
    Status(CANCELLED, <<"c","1">>, <<>>),
    WithPayload(Status(NOT_FOUND, <<"m","i","s","s","i","n","g"," ","x">>, <<>>), <<"k","1">>, <<"v">>) }

PayloadUrls == {<<"k","1">>, <<"k","2">>}
PayloadValues == {<<"v">>, <<"w">>}

\* The ways the second object becomes a copy of the first.
CopyOperations == {"operator=", "Status::Update", "StatusGroup::Update"}

\* The first object is constructed; the second is default-constructed.
PayloadStart ==
  /\ \E s \in PayloadStatuses :
       /\ heap = IF ok(s) THEN <<>> ELSE <<s.state_[1]>>
       /\ h_ptr = [o \in Objects |-> IF o = "orig" /\ ~ok(s) THEN 1 ELSE NullAddr]
  /\ h_val = StatusOK
  /\ h_ret = NoCall
  /\ h_how = "none"

\* What a step on the two objects leaves alone.
PayloadFrame ==
  UNCHANGED <<statusVars, derivedVars, groupVars, sinkVars, callVars, enableVars, lockVars>>

\* copy = orig; or copy.Update(orig), which assigns when copy is OK; or
\* group.Update(orig), which stores a copy as a child when orig is not OK.
PayloadCopy(how) ==
  /\ h_how = "none"
  /\ LET src == h_ptr["orig"]
         copies == CASE how = "operator=" -> TRUE
                     [] how = "Status::Update" -> ok(Deref(heap, h_ptr["copy"]))
                     [] how = "StatusGroup::Update" -> ~ok(Deref(heap, src))
         r == HeapSlowCopyFrom(heap, src)
     IN  IF copies
         THEN heap' = r.heap /\ h_ptr' = [h_ptr EXCEPT !["copy"] = r.ptr]
         ELSE UNCHANGED <<heap, h_ptr>>
  /\ h_val' = Deref(heap, h_ptr["orig"])
  /\ h_how' = how
  /\ UNCHANGED h_ret
  /\ PayloadFrame

\* The objects the program can call a payload function on: a child of a
\* StatusGroup is out of reach.
Callable == IF h_how = "StatusGroup::Update" THEN {"orig"} ELSE Objects

\* o.SetPayload(type_url, payload)
PayloadSet(o, type_url, payload) ==
  /\ o \in Callable
  /\ LET r == HeapAfter(heap, h_ptr[o], SetPayload(Deref(heap, h_ptr[o]), type_url, payload))
     IN  heap' = r.heap /\ h_ptr' = [h_ptr EXCEPT ![o] = r.ptr]
  /\ h_ret' = [NoCall EXCEPT !.obj = o, !.op = "SetPayload", !.type_url = type_url,
                             !.payload = payload]
  /\ UNCHANGED <<h_val, h_how>>
  /\ PayloadFrame

\* o.ErasePayload(type_url)
PayloadErase(o, type_url) ==
  /\ o \in Callable
  /\ LET r == HeapAfter(heap, h_ptr[o], ErasePayload(Deref(heap, h_ptr[o]), type_url))
     IN  heap' = r.heap /\ h_ptr' = [h_ptr EXCEPT ![o] = r.ptr]
  /\ h_ret' = [NoCall EXCEPT !.obj = o, !.op = "ErasePayload", !.type_url = type_url,
                             !.erased = ErasePayloadReturns(Deref(heap, h_ptr[o]), type_url)]
  /\ UNCHANGED <<h_val, h_how>>
  /\ PayloadFrame

\* o.GetPayload(type_url)
PayloadGet(o, type_url) ==
  /\ o \in Callable
  /\ h_ret' = [NoCall EXCEPT !.obj = o, !.op = "GetPayload", !.type_url = type_url,
                             !.got = GetPayload(Deref(heap, h_ptr[o]), type_url)]
  /\ UNCHANGED <<heap, h_ptr, h_val, h_how>>
  /\ PayloadFrame

\* o.ForEachPayload(visitor)
PayloadForEach(o) ==
  /\ o \in Callable
  /\ h_ret' = [NoCall EXCEPT !.obj = o, !.op = "ForEachPayload",
                             !.visited = ForEachPayload(Deref(heap, h_ptr[o]))]
  /\ UNCHANGED <<heap, h_ptr, h_val, h_how>>
  /\ PayloadFrame

NextPayload ==
  \/ \E how \in CopyOperations : PayloadCopy(how)
  \/ \E o \in Objects, type_url \in PayloadUrls, payload \in PayloadValues :
       PayloadSet(o, type_url, payload)
  \/ \E o \in Objects, type_url \in PayloadUrls : PayloadErase(o, type_url)
  \/ \E o \in Objects, type_url \in PayloadUrls : PayloadGet(o, type_url)
  \/ \E o \in Objects : PayloadForEach(o)

InitPayload ==
  StatusInit /\ DerivedInit /\ GroupInit /\ SinkInit({"unset"}) /\ CallInit /\ EnableInit
  /\ LockInit /\ PayloadStart

SpecPayload == InitPayload /\ [][NextPayload]_vars

-----------------------------------------------------------------------------
(* SpecLock: threads inside Send while another is inside GetMessages *)

\* A mutex_lock that lets the thread of GetMessages in while mu_ is held.
MutexFreeForReader(t) == t = Reader \/ mu_ = NoThread

\* mutex_lock lock(mu_): the thread goes on when no thread holds mu_.
MutexFree(t) == mu_ = NoThread

\* What a step inside Send or GetMessages leaves alone.
LockFrame ==
  UNCHANGED <<statusVars, derivedVars, groupVars, callVars, enableVars, heapVars,
              env, flag_, num_messages_, sinks>>

\* The log entries the threads write: every line has its own text.
LockEntries ==
  { [severity |-> severity, text |-> <<"l","i","n","e"," ">> \o ToDec(Len(sent))] :
      severity \in {kInfo, kWarning} }

\* Send(entry) is called: an entry below kWarning returns at once.
SendCall(t, entry) ==
  /\ sinks > 0
  /\ c_pc[t] = "idle"
  /\ Len(sent) < MaxLockSent
  /\ sent' = Append(sent, entry)
  /\ IF entry.severity < kWarning
     THEN UNCHANGED <<c_pc, c_entry>>
     ELSE /\ c_pc' = [c_pc EXCEPT ![t] = "lock"]
          /\ c_entry' = [c_entry EXCEPT ![t] = entry]
  /\ UNCHANGED <<mu_, messages_, c_logs, c_idx, c_snaps, c_hist>>
  /\ LockFrame

\* mutex_lock lock(mu_) of Send
SendLock(t) ==
  /\ c_pc[t] = "lock"
  /\ MutexFree(t)
  /\ mu_' = t
  /\ c_pc' = [c_pc EXCEPT ![t] = "emplace_back"]
  /\ UNCHANGED <<messages_, sent, c_entry, c_logs, c_idx, c_snaps, c_hist>>
  /\ LockFrame

\* messages_.emplace_back(entry.ToString())
SendEmplaceBack(t) ==
  /\ c_pc[t] = "emplace_back"
  /\ messages_' = Append(messages_, EntryToString(c_entry[t]))
  /\ c_pc' = [c_pc EXCEPT ![t] = "pop_front"]
  /\ UNCHANGED <<mu_, sent, c_entry, c_logs, c_idx, c_snaps, c_hist>>
  /\ LockFrame

\* if (messages_.size() > static_cast<size_t>(num_messages_)) messages_.pop_front()
SendPopFront(t) ==
  /\ c_pc[t] = "pop_front"
  /\ messages_' = IF ExceedsSizeT(Len(messages_), num_messages_)
                  THEN Tail(messages_) ELSE messages_
  /\ c_pc' = [c_pc EXCEPT ![t] = "unlock"]
  /\ UNCHANGED <<mu_, sent, c_entry, c_logs, c_idx, c_snaps, c_hist>>
  /\ LockFrame

\* Send returns and the lock is released: a whole Send has happened, and c_hist
\* notes the deque it left.
SendUnlock(t) ==
  /\ c_pc[t] = "unlock"
  /\ mu_' = NoThread
  /\ c_hist' = Append(c_hist, messages_)
  /\ c_pc' = [c_pc EXCEPT ![t] = "idle"]
  /\ c_entry' = [c_entry EXCEPT ![t] = NoEntry]
  /\ UNCHANGED <<messages_, sent, c_logs, c_idx, c_snaps>>
  /\ LockFrame

\* GetMessages(&logs) is called with an empty vector, as AttachLogMessages does.
GetCall ==
  /\ c_pc[Reader] = "idle"
  /\ Len(c_snaps) < MaxSnapshots
  /\ c_logs' = <<>>
  /\ c_idx' = 0
  /\ c_pc' = [c_pc EXCEPT ![Reader] = "lock"]
  /\ UNCHANGED <<mu_, messages_, sent, c_entry, c_snaps, c_hist>>
  /\ LockFrame

\* mutex_lock lock(mu_) of GetMessages
GetLock ==
  /\ c_pc[Reader] = "lock"
  /\ MutexFree(Reader)
  /\ mu_' = Reader
  /\ c_pc' = [c_pc EXCEPT ![Reader] = "loop"]
  /\ UNCHANGED <<messages_, sent, c_entry, c_logs, c_idx, c_snaps, c_hist>>
  /\ LockFrame

\* One round of for (auto& msg : messages_) logs->push_back(msg), or its end.
GetLoop ==
  /\ c_pc[Reader] = "loop"
  /\ IF c_idx < Len(messages_)
     THEN /\ c_logs' = Append(c_logs, messages_[c_idx + 1])
          /\ c_idx' = c_idx + 1
          /\ UNCHANGED c_pc
     ELSE /\ c_pc' = [c_pc EXCEPT ![Reader] = "unlock"]
          /\ UNCHANGED <<c_logs, c_idx>>
  /\ UNCHANGED <<mu_, messages_, sent, c_entry, c_snaps, c_hist>>
  /\ LockFrame

\* GetMessages returns and the lock is released: c_snaps notes the vector, and
\* how many whole Sends had happened by then.
GetUnlock ==
  /\ c_pc[Reader] = "unlock"
  /\ mu_' = NoThread
  /\ c_snaps' = Append(c_snaps, [logs |-> c_logs, at |-> Len(c_hist)])
  /\ c_logs' = <<>>
  /\ c_idx' = 0
  /\ c_pc' = [c_pc EXCEPT ![Reader] = "idle"]
  /\ UNCHANGED <<messages_, sent, c_entry, c_hist>>
  /\ LockFrame

NextLock ==
  \/ ConfigureLogHistory
  \/ \E t \in Senders, entry \in LockEntries : SendCall(t, entry)
  \/ \E t \in Senders : SendLock(t)
  \/ \E t \in Senders : SendEmplaceBack(t)
  \/ \E t \in Senders : SendPopFront(t)
  \/ \E t \in Senders : SendUnlock(t)
  \/ GetCall
  \/ GetLock
  \/ GetLoop
  \/ GetUnlock

\* The capacities the sink is configured with.
LockEnvironments == {<<"1">>, <<"2">>}

InitLock == StatusInit /\ DerivedInit /\ GroupInit /\ SinkInit(LockEnvironments) /\ OtherInit

SpecLock == InitLock /\ [][NextLock]_vars

-----------------------------------------------------------------------------
(* SpecCalls: a StatusGroup that is summarized while it is filled and logged to *)

\* The statuses passed to Update: OK, a root, a root whose payload holds the
\* text of the marker, and a derived error.
CallsInputs ==
  { StatusOK,
    Status(INTERNAL, <<"b","o","o","m">>, <<>>),
    WithPayload(Status(NOT_FOUND, <<"m","i","s","s","i","n","g"," ","x">>, <<>>), <<"u","r","l">>, kDerivedMarker),
    MakeDerived(Status(ABORTED, <<"s","t","e","p"," ","a","b","o","r","t","e","d">>, <<>>)) }

\* The log entries written meanwhile; one of them reports a derived error.
CallsEntries ==
  { [severity |-> kInfo, text |-> <<"s","t","a","r","t","i","n","g">>],
    [severity |-> kError, text |-> <<"d","i","s","k"," ","f","u","l","l">>],
    [severity |-> kWarning, text |-> <<"w","o","r","k","e","r"," ","1",":"," ">> \o kDerivedMarker \o <<"s","t","e","p"," ","a","b","o","r","t","e","d">>] }

\* group.Update(s): what the group returned before says nothing of it now.
CallsUpdate ==
  \E s \in CallsInputs :
    /\ Len(updates) < MaxCallsUpdates
    /\ Update(s)
    /\ rs' = <<>>
    /\ rc' = <<>>

CallsSend == \E entry \in CallsEntries : Len(sent) < MaxCallsSent /\ Send(entry)

\* group.AttachLogMessages()
CallsAttach ==
  /\ AttachLogMessages
  /\ rs' = <<>>
  /\ rc' = <<>>

\* A call of as_summary_status() that hands its logs over and leaves none.
SummaryCallConsumes ==
  /\ rs' = <<as_summary_status>>
  /\ recent_logs_' = <<>>
  /\ UNCHANGED <<rc, num_ok_, ok_, children_, updates, attach_at, statusVars, derivedVars,
               sinkVars, enableVars, lockVars, heapVars>>

\* group.as_summary_status(): a const member function; rs notes what it returned.
SummaryCall ==
  /\ rs' = <<as_summary_status>>
  /\ UNCHANGED <<rc, groupVars, statusVars, derivedVars, sinkVars, enableVars, lockVars,
               heapVars>>

\* group.as_concatenated_status(): a const member function; rc notes what it
\* returned.
ConcatenatedCall ==
  /\ rc' = <<as_concatenated_status>>
  /\ UNCHANGED <<rs, groupVars, statusVars, derivedVars, sinkVars, enableVars, lockVars,
               heapVars>>

NextCalls ==
  \/ CallsUpdate
  \/ ConfigureLogHistory
  \/ CallsSend
  \/ CallsAttach
  \/ SummaryCall
  \/ ConcatenatedCall

InitCalls == StatusInit /\ DerivedInit /\ GroupInit /\ SinkInit({"unset"}) /\ OtherInit

SpecCalls == InitCalls /\ [][NextCalls]_vars

-----------------------------------------------------------------------------
(* What the claims speak of, read off the histories *)

\* The first failing status of a sequence of statuses, OK when there is none.
FirstFailure(seq) ==
  IF \A i \in 1..Len(seq) : ok(seq[i]) THEN StatusOK
  ELSE seq[CHOOSE i \in 1..Len(seq) : ~ok(seq[i]) /\ \A j \in 1..(i - 1) : ok(seq[j])]

\* The first n characters of s.
Prefix(s, n) == SubSeq(s, 1, Min(Len(s), n))

\* Whether t occurs in s.
Contains(s, t) == Matches(s, t) # {}

\* How many times t occurs in s.
Occurrences(s, t) == Cardinality(Matches(s, t))

IsFailure(s) == ~ok(s)
IsRoot(s) == ~ok(s) /\ ~Contains(error_message(s), kDerivedMarker)

\* Of the statuses passed to StatusGroup::Update: the failing ones, and the
\* failing ones that are not derived, in call order.
Failures == SelectSeq(updates, IsFailure)
Roots == SelectSeq(updates, IsRoot)
NumOk == Len(updates) - Len(Failures)
NumDerived == Len(Failures) - Len(Roots)

\* The recent-logs block: nothing without logs, else the title and a line per
\* log, indented by two blanks and cut to 512 characters.
BlockOf(logs) ==
  IF logs = <<>> THEN <<>>
  ELSE <<"\n","R","e","c","e","n","t"," ","w","a","r","n","i","n","g"," ","a","n","d"," ","e","r","r","o","r"," ","l","o","g","s",":">>
       \o Concat([i \in 1..Len(logs) |-> <<"\n"," "," ">> \o Prefix(logs[i], 512)])

\* The block of the lines the group holds.
LogBlock == BlockOf(recent_logs_)

\* The text of the multi-root summary before any cut: the header, the roots
\* with their indices from 0, the two counts.
SummaryText ==
  LET roots == Roots IN
  ToDec(Len(roots)) \o <<" ","r","o","o","t"," ","e","r","r","o","r","(","s",")"," ","f","o","u","n","d",".">>
  \o Concat([i \in 1..Len(roots) |->
               <<"\n"," "," ","(">> \o ToDec(i - 1) \o <<")"," ">> \o ToString(roots[i])])
  \o <<"\n">> \o ToDec(NumOk) \o <<" ","s","u","c","c","e","s","s","f","u","l"," ","o","p","e","r","a","t","i","o","n","s",".">>
  \o <<"\n">> \o ToDec(NumDerived) \o <<" ","d","e","r","i","v","e","d"," ","e","r","r","o","r","s"," ","i","g","n","o","r","e","d",".">>

\* The text of the multi-root concatenation before any cut: the roots between
\* two rules.
ConcatenatedText ==
  LET roots == Roots IN
  <<"\n","=","=","=","=","=","=","=","=","=","=","=","=","=","=","=","=","=","=","=","=","=">>
  \o Concat([i \in 1..Len(roots) |-> <<"\n">> \o ToString(roots[i])])
  \o <<"\n","=","=","=","=","=","=","=","=","=","=","=","=","=","=","=","=","=","=","=","=","=","\n">>

-----------------------------------------------------------------------------
(* Claims *)

\* C1: Status::Update is "first failure wins": after Update(s1), ..., Update(sn)
\* on a Status that starts OK, the receiver equals the first non-OK si (code,
\* message and payloads), or is OK when every si is OK; so once it is non-OK no
\* later Update changes it.
C1_FirstFailureWins == st = FirstFailure(applied)

\* C1's case: an OK update, then two different failures; the first one stays.
C1_Witness ==
  /\ Len(applied) >= 3
  /\ ok(applied[1]) /\ ~ok(applied[2]) /\ ~ok(applied[3])
  /\ applied[2] # applied[3]
  /\ st = applied[2]

\* C2: for any sequence of StatusGroup::Update calls, the empty one included,
\* as_summary_status() and as_concatenated_status() are OK if and only if every
\* status passed to Update was OK.
C2_OkIffAllOk ==
  /\ ok(as_summary_status) <=> (\A i \in 1..Len(updates) : ok(updates[i]))
  /\ ok(as_concatenated_status) <=> (\A i \in 1..Len(updates) : ok(updates[i]))

\* C2's case: OK updates and a failure have been passed, and both results fail.
C2_Witness ==
  /\ \E i \in 1..Len(updates) : ok(updates[i])
  /\ \E i \in 1..Len(updates) : ~ok(updates[i])
  /\ ~ok(as_summary_status)
  /\ ~ok(as_concatenated_status)

\* C3: with exactly one non-derived child (any OK updates and derived children
\* around it), as_summary_status() has the root's code, and its message is the
\* root's message followed by the recent-logs block (nothing without logs), with
\* no header or footer; so the message starts with the root's message.
C3_SingleRootSummary ==
  Len(Roots) = 1 =>
    /\ code(as_summary_status) = code(Roots[1])
    /\ error_message(as_summary_status) = error_message(Roots[1]) \o LogBlock
    /\ Prefix(error_message(as_summary_status), Len(error_message(Roots[1])))
         = error_message(Roots[1])
    /\ recent_logs_ = <<>> => error_message(as_summary_status) = error_message(Roots[1])
    /\ ~Contains(error_message(as_summary_status), <<"r","o","o","t"," ","e","r","r","o","r","(","s",")"," ","f","o","u","n","d",".">>)

\* C3's case: one root after a derived child and an OK update, with logs attached.
C3_Witness ==
  /\ Len(Roots) = 1
  /\ NumDerived >= 1
  /\ NumOk >= 1
  /\ recent_logs_ # <<>>
  /\ ~ok(updates[1]) /\ ~IsRoot(updates[1])
  /\ Len(error_message(as_summary_status)) > Len(error_message(Roots[1]))

\* C4: with two or more non-derived children, the code of as_summary_status() is
\* the code of the first root whose code is not CANCELLED, and CANCELLED only when
\* every root is CANCELLED; derived children's codes do not count.
C4_SummaryCode ==
  Len(Roots) >= 2 =>
    IF \A i \in 1..Len(Roots) : code(Roots[i]) = CANCELLED
    THEN code(as_summary_status) = CANCELLED
    ELSE \E i \in 1..Len(Roots) :
           /\ code(Roots[i]) # CANCELLED
           /\ \A j \in 1..(i - 1) : code(Roots[j]) = CANCELLED
           /\ code(as_summary_status) = code(Roots[i])

\* C4's case: a derived ABORTED child, then a CANCELLED root, then a root with
\* another code, which the summary takes.
C4_Witness ==
  /\ Len(updates) >= 3
  /\ ~ok(updates[1]) /\ ~IsRoot(updates[1]) /\ code(updates[1]) = ABORTED
  /\ IsRoot(updates[2]) /\ code(updates[2]) = CANCELLED
  /\ IsRoot(updates[3]) /\ code(updates[3]) = NOT_FOUND
  /\ code(as_summary_status) = NOT_FOUND

\* C5 as stated: in the multi-root summary the header reports the number N of
\* roots, the roots are listed with the indices 0..N-1 in Update order, the
\* "successful operations" line reports the number of OK statuses, the "derived
\* errors ignored" line the failures that are no roots, and the three numbers
\* sum to the number of Update calls.
C5_AllNumbersReported ==
  Len(Roots) >= 2 =>
    LET msg == error_message(as_summary_status)
    IN  /\ Prefix(msg, Len(ToDec(Len(Roots))) + 22)
             = ToDec(Len(Roots)) \o <<" ","r","o","o","t"," ","e","r","r","o","r","(","s",")"," ","f","o","u","n","d",".","\n">>
        /\ \A i \in 1..Len(Roots) :
             Contains(msg, <<"\n"," "," ","(">> \o ToDec(i - 1) \o <<")"," ">>
                             \o error_name(code(Roots[i])) \o <<":"," ">>)
        /\ Contains(msg, <<"\n">> \o ToDec(NumOk) \o <<" ","s","u","c","c","e","s","s","f","u","l"," ","o","p","e","r","a","t","i","o","n","s",".","\n">>
                           \o ToDec(NumDerived) \o <<" ","d","e","r","i","v","e","d"," ","e","r","r","o","r","s"," ","i","g","n","o","r","e","d",".">>)
        /\ Len(Roots) + NumOk + NumDerived = Len(updates)

\* C5, amended: the message of the multi-root summary is the first 8192
\* characters of the text made of the header with N, the roots with the indices
\* 0..N-1 in Update order, the line with the number of OK statuses and the line
\* with the number of derived errors, followed by the recent-logs block; the
\* three numbers sum to the number of Update calls, and all of them are reported
\* when that text is at most 8192 characters long.
C5_NumbersUpToTheCut ==
  Len(Roots) >= 2 =>
    LET msg == error_message(as_summary_status)
    IN  /\ msg = Prefix(SummaryText, 8192) \o LogBlock
        /\ Prefix(msg, Len(ToDec(Len(Roots))) + 22)
             = ToDec(Len(Roots)) \o <<" ","r","o","o","t"," ","e","r","r","o","r","(","s",")"," ","f","o","u","n","d",".","\n">>
        /\ Len(Roots) + NumOk + NumDerived = Len(updates)
        /\ Len(SummaryText) <= 8192 => msg = SummaryText \o LogBlock

\* C5's case: two roots and a derived error, as "2 root error(s) found." and
\* "1 derived errors ignored.", nothing cut.
C5_Witness ==
  /\ Len(Roots) = 2
  /\ NumDerived = 1
  /\ ~IsRoot(updates[2])
  /\ Len(SummaryText) <= 8192
  /\ Contains(error_message(as_summary_status), <<"2"," ","r","o","o","t"," ","e","r","r","o","r","(","s",")"," ","f","o","u","n","d",".","\n"," "," ","(","0",")"," ">>)
  /\ Contains(error_message(as_summary_status),
              <<"\n","0"," ","s","u","c","c","e","s","s","f","u","l"," ","o","p","e","r","a","t","i","o","n","s",".","\n","1"," ","d","e","r","i","v","e","d"," ","e","r","r","o","r","s"," ","i","g","n","o","r","e","d",".">>)

\* C6: with at least one non-derived child, the code of as_concatenated_status()
\* is the code of the first root in Update order, CANCELLED included.
C6_ConcatenatedCode ==
  Len(Roots) >= 1 => code(as_concatenated_status) = code(Roots[1])

\* C6's case: a CANCELLED root before a NOT_FOUND root: the concatenation is
\* CANCELLED where the summary is NOT_FOUND.
C6_Witness ==
  /\ Len(Roots) >= 2
  /\ code(Roots[1]) = CANCELLED
  /\ code(Roots[2]) = NOT_FOUND
  /\ code(as_concatenated_status) = CANCELLED
  /\ code(as_summary_status) = NOT_FOUND

\* C7: with at least one child and every child derived, as_summary_status() and
\* as_concatenated_status() both return the first child passed to Update as it
\* is, whatever the OK updates and recent_logs.
C7_AllDerived ==
  (Failures # <<>> /\ Roots = <<>>) =>
    /\ as_summary_status = Failures[1]
    /\ as_concatenated_status = Failures[1]

\* C7's case: an OK update and two different derived children, with logs attached.
C7_Witness ==
  /\ Len(Failures) >= 2
  /\ Roots = <<>>
  /\ Failures[1] # Failures[2]
  /\ NumOk >= 1
  /\ recent_logs_ # <<>>
  /\ as_summary_status = Failures[1]

\* C8: for every non-OK status s, IsDerived(MakeDerived(s)) is true,
\* MakeDerived(s) keeps the code of s, and MakeDerived(MakeDerived(s)) has the
\* message of MakeDerived(s), with the marker as many times as in it.
C8_MakeDerivedIdempotent ==
  ~ok(d_arg) =>
    /\ Len(d_ret) >= 1 => (IsDerived(d_ret[1]) /\ code(d_ret[1]) = code(d_arg))
    /\ \A n \in 2..Len(d_ret) :
         /\ error_message(d_ret[n]) = error_message(d_ret[1])
         /\ Occurrences(error_message(d_ret[n]), kDerivedMarker)
              = Occurrences(error_message(d_ret[1]), kDerivedMarker)

\* C8's case: a status without the marker, marked by the first call and left as
\* it is by the second.
C8_Witness ==
  /\ ~ok(d_arg)
  /\ ~Contains(error_message(d_arg), kDerivedMarker)
  /\ Len(d_ret) >= 2
  /\ error_message(d_ret[2]) = kDerivedMarker \o error_message(d_arg)
  /\ Occurrences(error_message(d_ret[2]), kDerivedMarker) = 1

\* Whether the parts of a message put the marker into it: one part is the
\* marker, or its first half is followed by its second half.
PartsHoldMarker(parts) ==
  \/ \E i \in 1..Len(parts) : parts[i] = kDerivedMarker
  \/ \E i \in 1..(Len(parts) - 1) : parts[i] = PartHead /\ parts[i + 1] = PartTail

\* C9 as stated: IsDerived is false for every status that was never passed
\* through MakeDerived, whatever its message is.
C9_NeverDerivedUnlessMade == ~IsDerived(d_arg)

\* C9, amended: for a status that was never passed through MakeDerived,
\* IsDerived is true exactly when the message text holds the marker
\* "[_Derived_]"; it is false whenever the text does not hold it.
C9_DerivedIffMarkerInText == IsDerived(d_arg) <=> PartsHoldMarker(d_parts)

\* C9's case: a caller's message made of the marker's halves in the wrong order
\* is not derived.
C9_Witness ==
  /\ d_parts = <<PartTail, PartHead>>
  /\ ~ok(d_arg)
  /\ ~IsDerived(d_arg)

\* The texts of the entries of severity WARNING or above, in delivery order.
AcceptedOf(entries) ==
  LET Accepted(entry) == entry.severity >= kWarning
      kept == SelectSeq(entries, Accepted)
  IN  [i \in 1..Len(kept) |-> kept[i].text]

\* The last n elements of a sequence.
LastN(seq, n) == SubSeq(seq, Len(seq) - n + 1, Len(seq))

\* C10: after any sequence of log lines delivered to the enabled sink with
\* capacity c > 0, the buffer holds the last min(c, n) of the n lines of
\* severity WARNING or above, oldest first; so it never holds more than c lines,
\* the line evicted is the oldest, and a line below WARNING changes nothing.
C10_LastLinesKept ==
  (flag_ = "done" /\ num_messages_ > 0) =>
    /\ messages_ = LastN(AcceptedOf(sent), Min(num_messages_, Len(AcceptedOf(sent))))
    /\ Len(messages_) <= num_messages_

\* C10's case: the default capacity of 5, six accepted lines and one below
\* WARNING: the first accepted line is gone.
C10_Witness ==
  /\ num_messages_ = 5
  /\ Len(AcceptedOf(sent)) = 6
  /\ \E i \in 1..Len(sent) : sent[i].severity < kWarning
  /\ Len(messages_) = 5
  /\ messages_[1] = AcceptedOf(sent)[2]

\* C11: however the calls of enable() of several threads interleave, the lambda
\* is entered at most once and the sink registered at most once; a call has
\* returned only when the initialization is complete, and then the lambda has
\* run exactly once, num_messages_ is what the environment configures, and the
\* sink is registered once when that is above 0 and not at all otherwise. As
\* this holds in every state after the first return, a later call changes
\* neither num_messages_ nor the registration.
C11_EnableOnce ==
  /\ e_runs <= 1
  /\ sinks <= 1
  /\ \A t \in EnableThreads : e_calls[t] > 0 => flag_ = "done"
  /\ flag_ = "done" =>
       /\ e_runs = 1
       /\ num_messages_ = ConfiguredNumMessages(env)
       /\ sinks = IF num_messages_ > 0 THEN 1 ELSE 0

\* Two threads have returned from enable(), one of them twice, and the sink is
\* registered.
C11_Witness ==
  /\ \E t, u \in EnableThreads : t # u /\ e_calls[t] >= 2 /\ e_calls[u] >= 1
  /\ sinks = 1

\* C12: a Status object whose state_ is null (an OK status, one without a
\* failure record) still has a null state_ after any call of SetPayload,
\* GetPayload, ErasePayload or ForEachPayload, no State is allocated for it,
\* and on it GetPayload returns nullopt, ErasePayload returns false and
\* ForEachPayload does not call the visitor.
C12_OkStaysOk ==
  [][\A o \in Objects :
       (h_how' = h_how /\ h_ptr[o] = NullAddr) =>
         /\ h_ptr'[o] = NullAddr
         /\ ok(Deref(heap', h_ptr'[o]))
         /\ h_ret'.obj = o =>
              /\ heap' = heap
              /\ h_ret'.got = <<>>
              /\ ~h_ret'.erased
              /\ h_ret'.visited = <<>>]_vars

\* SetPayload was called on the first object, which was constructed OK: its
\* state_ is null and no State exists.
C12_Witness ==
  /\ heap = <<>>
  /\ h_ptr["orig"] = NullAddr
  /\ h_ret.obj = "orig"
  /\ h_ret.op = "SetPayload"

\* C13: once the second object is a copy of the first (by assignment, by
\* Status::Update or as the child stored by StatusGroup::Update), a call of a
\* payload function on one object leaves the status the other object is, its
\* payloads included, as it was.
C13_CopiesIndependent ==
  [][(h_how # "none" /\ h_how' = h_how) =>
       \A o \in Objects : h_ret'.obj = o =>
         \A q \in Objects \ {o} : Deref(heap', h_ptr'[q]) = Deref(heap, h_ptr[q])]_vars

\* A failing status was stored by StatusGroup::Update, then the caller's object
\* had a payload set or erased: it differs from what was copied, and the child
\* is still what was copied.
C13_Witness ==
  /\ h_how = "StatusGroup::Update"
  /\ ~ok(h_val)
  /\ h_ret.obj = "orig"
  /\ h_ret.op \in {"SetPayload", "ErasePayload"}
  /\ Deref(heap, h_ptr["orig"]) # h_val
  /\ Deref(heap, h_ptr["copy"]) = h_val
C15_GroupInvariant ==
  /\ [](/\ ok_ <=> children_ = <<>>
        /\ children_ = SelectSeq(updates, IsFailure)
        /\ num_ok_ = Cardinality({i \in 1..Len(updates) : ok(updates[i])}))
  /\ [][(Len(updates') = Len(updates) + 1 /\ ok(updates'[Len(updates')])) =>
          /\ num_ok_' = num_ok_ + 1
          /\ UNCHANGED <<ok_, children_, recent_logs_>>]_vars

\* C15's case: a failure, an OK status and another failure were passed, after
\* log lines were attached: two children in call order, one OK counted.
C15_Witness ==
  /\ Len(updates) = 3
  /\ ~ok(updates[1]) /\ ok(updates[2]) /\ ~ok(updates[3])
  /\ updates[1] # updates[3]
  /\ children_ = <<updates[1], updates[3]>>
  /\ num_ok_ = 1
  /\ ~ok_
  /\ recent_logs_ # <<>>
\* C16: every vector GetMessages returned while other threads were inside Send
\* is the deque as a whole Send left it (or the empty deque before the first),
\* namely the one left by the last Send that finished before the lock was taken:
\* it holds no more than num_messages_ lines, and these are the last lines, in
\* order, of the lines accepted until then.
C16_SnapshotAtomic ==
  LET accepted == [i \in 1..Len(c_hist) |-> c_hist[i][Len(c_hist[i])]]
  IN  \A k \in 1..Len(c_snaps) :
        LET logs == c_snaps[k].logs
            at == c_snaps[k].at
        IN  /\ Len(logs) <= num_messages_
            /\ logs = IF at = 0 THEN <<>> ELSE c_hist[at]
            /\ logs = LastN(Prefix(accepted, at), Min(at, num_messages_))

\* C16's case: GetMessages returned a full vector while a thread was inside
\* Send, between its emplace_back and its pop_front, with the deque one over
\* the capacity.
C16_Witness ==
  /\ Len(c_snaps) >= 1
  /\ Len(c_snaps[Len(c_snaps)].logs) = num_messages_
  /\ \E t \in Senders : c_pc[t] = "pop_front"
  /\ Len(messages_) = num_messages_ + 1
\* C17: recent_logs_ is empty before the first AttachLogMessages and afterwards
\* is the deque as it was at the last call: the last lines, at most
\* num_messages_ of them, of the lines of severity WARNING or above sent until
\* then, whatever was attached before and whatever was sent since; and with one
\* root the summary message is the root's message followed by the block of
\* exactly those lines.
C17_PointInTimeCopy ==
  LET accepted == AcceptedOf(Prefix(sent, attach_at))
      snapshot == IF attach_at = -1 THEN <<>>
                  ELSE LastN(accepted, Min(Len(accepted), num_messages_))
  IN  /\ recent_logs_ = snapshot
      /\ Len(Roots) = 1 =>
           error_message(as_summary_status) = error_message(Roots[1]) \o BlockOf(snapshot)

\* C17's case: lines were attached, then another line of severity WARNING or
\* above was sent: the deque holds it, recent_logs_ and the summary of the one
\* root do not.
C17_Witness ==
  /\ attach_at >= 1
  /\ recent_logs_ # <<>>
  /\ Len(sent) > attach_at
  /\ Len(messages_) > Len(recent_logs_)
  /\ Len(Roots) = 1
  /\ ~Contains(error_message(as_summary_status), messages_[Len(messages_)])
  /\ Contains(error_message(as_summary_status), recent_logs_[1])

\* C18: a call of as_summary_status() or as_concatenated_status() leaves num_ok_,
\* ok_, children_ and recent_logs_ as they were, and as long as neither Update
\* nor AttachLogMessages is called every further call returns a status equal to
\* the one returned before, whatever is logged meanwhile.
C18_CallsAreConst ==
  /\ [](/\ rs # <<>> => rs[1] = as_summary_status
        /\ rc # <<>> => rc[1] = as_concatenated_status)
  /\ [][((rs' # <<>> /\ rs' # rs) \/ (rc' # <<>> /\ rc' # rc)) =>
          UNCHANGED <<num_ok_, ok_, children_, recent_logs_>>]_vars

\* C18's case: both functions were called on a group with two roots and attached
\* lines, and a line was sent after the lines were attached.
C18_Witness ==
  /\ rs # <<>>
  /\ rc # <<>>
  /\ Len(Roots) = 2
  /\ recent_logs_ # <<>>
  /\ Len(sent) > attach_at
  /\ messages_ # recent_logs_
  /\ rs[1] = as_summary_status
  /\ rc[1] = as_concatenated_status

\* C19 as stated: with at least one non-derived child, IsDerived is false on what
\* as_summary_status() and as_concatenated_status() return.
C19_SummaryOfRootsNotDerived ==
  Len(Roots) >= 1 =>
    /\ ~IsDerived(as_summary_status)
    /\ ~IsDerived(as_concatenated_status)
=============================================================================
